---- MODULE Spec2Model ----
(***************************************************************************)
(* Brewery Modbus server: the address-map manager (BreweryModbusServer)    *)
(* of src/debug_server.py and src/main.py on top of the pymodbus register  *)
(* store, together with a gateway client that writes holding registers.    *)
(*                                                                         *)
(* Numbers.  The simulation driver passes Python floats.  A float field x  *)
(* is represented by the integer 100*x (hundredths).  The inputs of the    *)
(* model are values for which the binary floating point products x*10 and  *)
(* x*100 truncate to the same integer as the exact products (checked for   *)
(* every input used below), and raw/10.0*10 truncates to raw for every     *)
(* integer raw in -200000..400000.                                         *)
(***************************************************************************)
EXTENDS Integers, Sequences, FiniteSets, TLC

VARIABLES server, fermenters, ir, hr, lastOp,
          pending,    \* the register writes the running simulation tick has still to make
          reply,      \* the last reply the protocol layer gave a client
          written,    \* history: the values every cell has held
          committed   \* history: the stores as the last completed operation left them

vars == <<server, fermenters, ir, hr, lastOp, pending, reply, written, committed>>

(***************************************************************************)
(* Bounds of the model.                                                    *)
(***************************************************************************)
\* fermenters registered at the same time (the code sets no limit)
MaxFermenters == 2

(***************************************************************************)
(* Program constants.                                                      *)
(***************************************************************************)
CHILLER_BASE == 30001
FERMENTER_BASE == 30021
REGISTERS_PER_FERMENTER == 10
SETPOINT_MIRROR == 40001
CHILLER_SETPOINT_ECHO == 30002
DEFAULT_SENTINEL == 20

Servers == {"debug", "main"}

\* the fermenter identifiers "FV001", "FV002", "FV003"
Ids == {1, 2, 3}

\* slot indices a registry of at most MaxFermenters fermenters hands out
Slots == 0..(MaxFermenters - 1)

(***************************************************************************)
(* The register store.  A ModbusSequentialDataBlock(start, [0] * n) is a   *)
(* list of n cells; the device context addresses it with address + 1.      *)
(* Only the cells the address-map manager and the gateway of this model    *)
(* touch are kept; every one of them lies inside its block.                *)
(***************************************************************************)
BlockStart(srv, fx) ==
    IF srv = "debug" THEN 1
    ELSE IF fx = 4 THEN 30001 ELSE 40001

BlockLen(srv, fx) ==
    IF srv = "debug" THEN 65535 ELSE 1000

\* index into the block's list of the cell a context address names
CellIndex(srv, fx, address) == (address + 1) - BlockStart(srv, fx)

InBlock(srv, fx, address, count) ==
    /\ CellIndex(srv, fx, address) >= 0
    /\ CellIndex(srv, fx, address) + count <= BlockLen(srv, fx)

IrAddrs ==
    (CHILLER_BASE..(CHILLER_BASE + 9))
    \cup (FERMENTER_BASE..(FERMENTER_BASE + REGISTERS_PER_FERMENTER * MaxFermenters - 1))

HrAddrs == SETPOINT_MIRROR..(SETPOINT_MIRROR + MaxFermenters - 1)

\* slave_context.getValues(fx, address, count)
getValues(srv, store, fx, address, count) ==
    [i \in 1..count |-> store[address + i - 1]]

\* mutant of setValues: the values land one cell too high
setValues_shifted(srv, store, fx, address, values) ==
    IF InBlock(srv, fx, address, Len(values))
    THEN [a \in DOMAIN store |->
            IF a >= address + 1 /\ a < address + 1 + Len(values)
            THEN values[a - address]
            ELSE store[a]]
    ELSE store

\* slave_context.setValues(fx, address, values)
setValues(srv, store, fx, address, values) ==
    IF InBlock(srv, fx, address, Len(values))
    THEN [a \in DOMAIN store |->
            IF a >= address /\ a < address + Len(values)
            THEN values[a - address + 1]
            ELSE store[a]]
    ELSE store

(***************************************************************************)
(* Conversions.                                                            *)
(***************************************************************************)
\* Python int(): truncation toward zero of a / b
TruncDiv(a, b) == IF a >= 0 THEN a \div b ELSE -((-a) \div b)

\* int(x * 10) for a float x given in hundredths
Scale10(h) == TruncDiv(h, 10)

\* int(x * 100) for a float x given in hundredths
Scale100(h) == h

\* int(x) for a float x given in hundredths
IntOf(h) == TruncDiv(h, 100)

\* raw / 10.0, as hundredths
Descale(raw) == raw * 10

\* data.get(key, default)
Get(data, key, default) == IF key \in DOMAIN data THEN data[key] ELSE default

\* data[key] = value
Put(data, key, value) ==
    [k \in DOMAIN data \cup {key} |-> IF k = key THEN value ELSE data[k]]

(***************************************************************************)
(* The fermenter registry and the register blocks.                         *)
(***************************************************************************)
\* used_indices = set(self.fermenters.values())
used_indices(f) == {f[x] : x \in DOMAIN f}

\* mutant of next_index: the next index is the number of fermenters
next_index_count(used, fermenter_index) == Cardinality(used)

\* fermenter_index = 0; while fermenter_index in used_indices: += 1
RECURSIVE next_index(_, _)
next_index(used, fermenter_index) ==
    IF fermenter_index \in used
    THEN next_index(used, fermenter_index + 1)
    ELSE fermenter_index

\* base_addr = FERMENTER_BASE + fermenter_index * REGISTERS_PER_FERMENTER
base_addr(fermenter_index) ==
    FERMENTER_BASE + (fermenter_index * REGISTERS_PER_FERMENTER)

initial_values == <<200, 200, 20, 80, 0, 0, 0, 0, 0, 1>>

\* mutant of WriteEach: the loop runs one cell past the block and clears it
WriteEach_over(srv, store, fx, base, values, n) ==
    [a \in DOMAIN store |->
        IF a >= base /\ a < base + n /\ InBlock(srv, fx, a, 1)
        THEN values[a - base + 1]
        ELSE IF a = base + n THEN 0 ELSE store[a]]

\* for i, value in enumerate(values): setValues(fx, base + i, [value])
\* (n single-cell writes to n different cells: cell base + i takes values[i]
\* when that one-cell write lies inside the block)
WriteEach(srv, store, fx, base, values, n) ==
    [a \in DOMAIN store |->
        IF a >= base /\ a < base + n /\ InBlock(srv, fx, a, 1)
        THEN values[a - base + 1]
        ELSE store[a]]

\* self.fermenters[fermenter_id] = fermenter_index
Assign(f, fermenter_id, fermenter_index) ==
    [x \in DOMAIN f \cup {fermenter_id} |->
        IF x = fermenter_id THEN fermenter_index ELSE f[x]]

\* mutant of Pop: the fermenters above the removed one move down a slot
Pop_renumber(f, fermenter_id) ==
    [x \in DOMAIN f \ {fermenter_id} |->
        IF f[x] > f[fermenter_id] THEN f[x] - 1 ELSE f[x]]

\* self.fermenters.pop(fermenter_id): the registry that is left
Pop(f, fermenter_id) == [x \in DOMAIN f \ {fermenter_id} |-> f[x]]

\* mutant of add_fermenter: no early return for a registered id
add_fermenter_again(srv, f, irS, fermenter_id) ==
    LET fermenter_index == next_index(used_indices(f), 0)
    IN  [fermenters |-> Assign(f, fermenter_id, fermenter_index),
         ir |-> WriteEach(srv, irS, 4, base_addr(fermenter_index),
                          initial_values, Len(initial_values))]

\* add_fermenter: the registry and the Input space after the call
add_fermenter(srv, f, irS, fermenter_id) ==
    IF fermenter_id \in DOMAIN f
    THEN [fermenters |-> f, ir |-> irS]
    ELSE LET fermenter_index == next_index(used_indices(f), 0)
         IN  [fermenters |-> Assign(f, fermenter_id, fermenter_index),
              ir |-> WriteEach(srv, irS, 4, base_addr(fermenter_index),
                               initial_values, Len(initial_values))]

\* mutant of remove_fermenter: the block is not cleared
remove_fermenter_keep(srv, f, irS, fermenter_id) ==
    IF fermenter_id \notin DOMAIN f
    THEN [fermenters |-> f, ir |-> irS]
    ELSE [fermenters |-> Pop(f, fermenter_id), ir |-> irS]

\* remove_fermenter: the registry and the Input space after the call
remove_fermenter(srv, f, irS, fermenter_id) ==
    IF fermenter_id \notin DOMAIN f
    THEN [fermenters |-> f, ir |-> irS]
    ELSE [fermenters |-> Pop(f, fermenter_id),
          ir |-> WriteEach(srv, irS, 4, base_addr(f[fermenter_id]),
                           [i \in 1..REGISTERS_PER_FERMENTER |-> 0],
                           REGISTERS_PER_FERMENTER)]

(***************************************************************************)
(* Domain fields to register values.                                       *)
(***************************************************************************)
\* mutant of chiller_registers: system_status defaults to 0 like the others
chiller_registers_zero_status(data) ==
    << Scale10(Get(data, "reservoir_temp", 0)),
       Scale10(Get(data, "supply_temp", 0)),
       Scale10(Get(data, "return_temp", 0)),
       IF Get(data, "compressor_running", FALSE) THEN 1 ELSE 0,
       IntOf(Get(data, "compressor_power", 0)),
       IntOf(Get(data, "total_heat_load", 0)),
       Scale10(Get(data, "setpoint", 0)),
       Scale10(Get(data, "efficiency", 0)),
       Get(data, "alarm_status", 0),
       Get(data, "system_status", 0) >>

\* the registers dict of update_chiller_data, in address order
chiller_registers(data) ==
    << Scale10(Get(data, "reservoir_temp", 0)),
       Scale10(Get(data, "supply_temp", 0)),
       Scale10(Get(data, "return_temp", 0)),
       IF Get(data, "compressor_running", FALSE) THEN 1 ELSE 0,
       IntOf(Get(data, "compressor_power", 0)),
       IntOf(Get(data, "total_heat_load", 0)),
       Scale10(Get(data, "setpoint", 0)),
       Scale10(Get(data, "efficiency", 0)),
       Get(data, "alarm_status", 0),
       Get(data, "system_status", 1) >>

\* the registers list of update_fermenter_data
fermenter_registers(data) ==
    << Scale10(Get(data, "current_temp", 0)),
       Scale10(Get(data, "setpoint", 0)),
       Scale10(Get(data, "supply_temp", 0)),
       Scale10(Get(data, "return_temp", 0)),
       IF Get(data, "cooling_active", FALSE) THEN 1 ELSE 0,
       Scale100(Get(data, "duty_cycle", 0)),
       IntOf(Get(data, "heat_load_to_chiller", 0)),
       IntOf(Get(data, "fermentation_heat", 0)),
       Get(data, "alarm_status", 0),
       Get(data, "status", 1) >>

\* mutant of gateway_override: the mirror is never consulted
gateway_override_off(data, current_setpoint_raw) == data

\* the gateway check at the head of both update calls of the debug server:
\* the data the rest of the call works with
gateway_override(data, current_setpoint_raw) ==
    IF current_setpoint_raw # 0
       /\ current_setpoint_raw # Scale10(Get(data, "setpoint", 0))
    THEN Put(data, "setpoint", Descale(current_setpoint_raw))
    ELSE data

(***************************************************************************)
(* update_chiller_data.                                                    *)
(***************************************************************************)
\* mutant of update_chiller_data: the mirror is written on every call
update_chiller_data_clobber(srv, irS, hrS, data0) ==
    LET registers == chiller_registers(data0)
    IN  [ir |-> WriteEach(srv, irS, 4, CHILLER_BASE, registers, Len(registers)),
         hr |-> setValues(srv, hrS, 3, SETPOINT_MIRROR, <<registers[7]>>)]

\* debug_server.py: the Input and Holding spaces after the call
update_chiller_data(srv, irS, hrS, data0) ==
    LET current_setpoint_raw == getValues(srv, hrS, 3, SETPOINT_MIRROR, 1)[1]
        data == gateway_override(data0, current_setpoint_raw)
        registers == chiller_registers(data)
        ir1 == WriteEach(srv, irS, 4, CHILLER_BASE, registers, Len(registers))
        setpoint_value == Scale10(Get(data, "setpoint", 0))
        ir2 == setValues(srv, ir1, 4, CHILLER_SETPOINT_ECHO, <<setpoint_value>>)
        current_holding_setpoint ==
            getValues(srv, hrS, 3, SETPOINT_MIRROR, 1)[1]
    IN  [ir |-> ir2,
         hr |-> IF current_holding_setpoint = 0
                   \/ current_holding_setpoint = DEFAULT_SENTINEL
                THEN setValues(srv, hrS, 3, SETPOINT_MIRROR, <<setpoint_value>>)
                ELSE hrS]

\* main.py: the Input and Holding spaces after the call
main_update_chiller_data(srv, irS, hrS, data) ==
    LET registers == chiller_registers(data)
    IN  [ir |-> WriteEach(srv, irS, 4, CHILLER_BASE, registers, Len(registers)),
         hr |-> setValues(srv, hrS, 3, SETPOINT_MIRROR, <<registers[7]>>)]

(***************************************************************************)
(* update_fermenter_data.                                                  *)
(***************************************************************************)
\* mutant of update_fermenter_data: the simulation setpoint is stored in the
\* mirror whatever the mirror holds
update_fermenter_data_clobber(srv, f, irS, hrS, fermenter_id, data0) ==
    LET added == add_fermenter(srv, f, irS, fermenter_id)
        fermenter_index == added.fermenters[fermenter_id]
        registers == fermenter_registers(data0)
    IN  [fermenters |-> added.fermenters,
         ir |-> WriteEach(srv, added.ir, 4, base_addr(fermenter_index),
                          registers, Len(registers)),
         hr |-> setValues(srv, hrS, 3, SETPOINT_MIRROR + fermenter_index,
                          <<registers[2]>>)]

\* mutant of update_fermenter_data: an unregistered id is added and the call
\* returns
update_fermenter_data_stop(srv, f, irS, hrS, fermenter_id, data0) ==
    LET added == add_fermenter(srv, f, irS, fermenter_id)
    IN  [fermenters |-> added.fermenters, ir |-> added.ir, hr |-> hrS]

\* debug_server.py: registry, Input and Holding spaces after the call
update_fermenter_data(srv, f, irS, hrS, fermenter_id, data0) ==
    LET added == add_fermenter(srv, f, irS, fermenter_id)
        fermenter_index == added.fermenters[fermenter_id]
        mirror == SETPOINT_MIRROR + fermenter_index
        current_setpoint_raw == getValues(srv, hrS, 3, mirror, 1)[1]
        data == gateway_override(data0, current_setpoint_raw)
        registers == fermenter_registers(data)
        ir1 == WriteEach(srv, added.ir, 4, base_addr(fermenter_index),
                         registers, Len(registers))
        hr1 == setValues(srv, hrS, 3, mirror, <<registers[2]>>)
        current_holding_setpoint == getValues(srv, hr1, 3, mirror, 1)[1]
    IN  [fermenters |-> added.fermenters,
         ir |-> ir1,
         hr |-> IF current_holding_setpoint = 0
                   \/ current_holding_setpoint = DEFAULT_SENTINEL
                THEN setValues(srv, hr1, 3, mirror, <<registers[2]>>)
                ELSE hr1]

\* main.py: registry, Input and Holding spaces after the call
main_update_fermenter_data(srv, f, irS, hrS, fermenter_id, data) ==
    LET added == add_fermenter(srv, f, irS, fermenter_id)
        fermenter_index == added.fermenters[fermenter_id]
        registers == fermenter_registers(data)
    IN  [fermenters |-> added.fermenters,
         ir |-> WriteEach(srv, added.ir, 4, base_addr(fermenter_index),
                          registers, Len(registers)),
         hr |-> setValues(srv, hrS, 3, SETPOINT_MIRROR + fermenter_index,
                          <<registers[2]>>)]

\* mutant of read_setpoints: the chiller's raw register value is returned
read_setpoints_raw(srv, f, hrS) ==
    [chiller_setpoint |-> getValues(srv, hrS, 3, SETPOINT_MIRROR, 1)[1],
     fermenters |->
        [fermenter_id \in DOMAIN f |->
            Descale(getValues(srv, hrS, 3, SETPOINT_MIRROR + f[fermenter_id], 1)[1])]]

\* read_setpoints(), each setpoint as hundredths of a degree
read_setpoints(srv, f, hrS) ==
    [chiller_setpoint |->
        Descale(getValues(srv, hrS, 3, SETPOINT_MIRROR, 1)[1]),
     fermenters |->
        [fermenter_id \in DOMAIN f |->
            Descale(getValues(srv, hrS, 3, SETPOINT_MIRROR + f[fermenter_id], 1)[1])]]

(***************************************************************************)
(* Inputs.                                                                 *)
(***************************************************************************)
NoData == [k \in {} |-> 0]

\* a chiller update as the simulation task builds it, with setpoint s
ChillerData(s) ==
    [reservoir_temp |-> 215, supply_temp |-> 230, return_temp |-> 875,
     compressor_running |-> TRUE, compressor_power |-> 450000,
     total_heat_load |-> 1234567, setpoint |-> s, efficiency |-> 8500,
     alarm_status |-> 3, system_status |-> 2]

\* a fermenter update as the simulation task builds it, with setpoint s
FermenterData(s) ==
    [current_temp |-> 1805, setpoint |-> s, supply_temp |-> 230,
     return_temp |-> 775, cooling_active |-> TRUE, duty_cycle |-> 75,
     heat_load_to_chiller |-> 312345, fermentation_heat |-> 54321,
     alarm_status |-> 4, status |-> 2]

\* data without the field key
Without(data, key) == [k \in DOMAIN data \ {key} |-> data[k]]

ChillerSetpoints == {200}
FermenterSetpoints == {1800}
GatewayValues == {0, 25}

ChillerInputs == {ChillerData(s) : s \in ChillerSetpoints}
FermenterInputs == {FermenterData(s) : s \in FermenterSetpoints}

\* the fields in the order of their cells
ChillerFields ==
    << "reservoir_temp", "supply_temp", "return_temp", "compressor_running",
       "compressor_power", "total_heat_load", "setpoint", "efficiency",
       "alarm_status", "system_status" >>

FermenterFields ==
    << "current_temp", "setpoint", "supply_temp", "return_temp",
       "cooling_active", "duty_cycle", "heat_load_to_chiller",
       "fermentation_heat", "alarm_status", "status" >>

\* updates that omit fields: none, any one, or all of them
OmitOne(data) == {Without(data, key) : key \in DOMAIN data}
ChillerFieldInputs ==
    UNION {{data} \cup OmitOne(data) : data \in ChillerInputs} \cup {NoData}
FermenterFieldInputs ==
    UNION {{data} \cup OmitOne(data) : data \in FermenterInputs} \cup {NoData}

(***************************************************************************)
(* The state machine.  Every call of the address-map manager runs without  *)
(* a suspension point, so each is one step.  lastOp names the call that    *)
(* made the last step and, where the call logs a warning (already exists,  *)
(* not found, not found - adding it), that it took that branch.            *)
(*                                                                         *)
(* After...(inputs) is the state a call leaves when it is made in the      *)
(* current state; the actions take the step to it.                         *)
(***************************************************************************)
\* no client has been answered yet
NoReply ==
    [kind |-> "none", fx |-> 0, address |-> 0, count |-> 0, values |-> << >>,
     code |-> "none"]

Init ==
    /\ server \in Servers
    /\ fermenters = [x \in {} |-> 0]
    /\ ir = [a \in IrAddrs |-> 0]
    /\ hr = [a \in HrAddrs |-> 0]
    /\ lastOp = "init"
    /\ pending = << >>
    /\ reply = NoReply
    /\ written = [a \in IrAddrs \cup HrAddrs |-> {0}]
    /\ committed = [ir |-> [a \in IrAddrs |-> 0], hr |-> [a \in HrAddrs |-> 0]]

\* the bound of the model: a call registers a new id only below MaxFermenters
CanRegister(fermenter_id) ==
    \/ fermenter_id \in DOMAIN fermenters
    \/ Cardinality(DOMAIN fermenters) < MaxFermenters

StepTo(after) ==
    /\ fermenters' = after.fermenters
    /\ ir' = after.ir
    /\ hr' = after.hr
    /\ lastOp' = after.lastOp
    /\ UNCHANGED <<server, pending, reply, written, committed>>

AfterAddFermenter(fermenter_id) ==
    LET r == add_fermenter(server, fermenters, ir, fermenter_id)
    IN  [fermenters |-> r.fermenters, ir |-> r.ir, hr |-> hr,
         lastOp |-> IF fermenter_id \in DOMAIN fermenters
                    THEN "AddFermenter:exists"
                    ELSE "AddFermenter"]

AfterRemoveFermenter(fermenter_id) ==
    LET r == remove_fermenter(server, fermenters, ir, fermenter_id)
    IN  [fermenters |-> r.fermenters, ir |-> r.ir, hr |-> hr,
         lastOp |-> IF fermenter_id \in DOMAIN fermenters
                    THEN "RemoveFermenter"
                    ELSE "RemoveFermenter:notfound"]

AfterUpdateChillerData(data) ==
    LET r == IF server = "debug"
             THEN update_chiller_data(server, ir, hr, data)
             ELSE main_update_chiller_data(server, ir, hr, data)
    IN  [fermenters |-> fermenters, ir |-> r.ir, hr |-> r.hr,
         lastOp |-> "UpdateChillerData"]

AfterUpdateFermenterData(fermenter_id, data) ==
    LET r == IF server = "debug"
             THEN update_fermenter_data(server, fermenters, ir, hr,
                                        fermenter_id, data)
             ELSE main_update_fermenter_data(server, fermenters, ir, hr,
                                             fermenter_id, data)
    IN  [fermenters |-> r.fermenters, ir |-> r.ir, hr |-> r.hr,
         lastOp |-> IF fermenter_id \in DOMAIN fermenters
                    THEN "UpdateFermenterData"
                    ELSE "UpdateFermenterData:adding"]

\* a gateway client writes one holding register (function code 6)
AfterGatewayWrite(address, value) ==
    [fermenters |-> fermenters, ir |-> ir,
     hr |-> setValues(server, hr, 6, address, <<value>>),
     lastOp |-> "GatewayWrite"]

AddFermenter(fermenter_id) ==
    /\ CanRegister(fermenter_id)
    /\ StepTo(AfterAddFermenter(fermenter_id))

RemoveFermenter(fermenter_id) ==
    StepTo(AfterRemoveFermenter(fermenter_id))

UpdateChillerData(data) ==
    StepTo(AfterUpdateChillerData(data))

UpdateFermenterData(fermenter_id, data) ==
    /\ CanRegister(fermenter_id)
    /\ StepTo(AfterUpdateFermenterData(fermenter_id, data))

GatewayWrite(address, value) ==
    StepTo(AfterGatewayWrite(address, value))

Next ==
    \/ \E fermenter_id \in Ids : AddFermenter(fermenter_id)
    \/ \E fermenter_id \in Ids : RemoveFermenter(fermenter_id)
    \/ \E data \in ChillerInputs : UpdateChillerData(data)
    \/ \E fermenter_id \in Ids, data \in FermenterInputs :
          UpdateFermenterData(fermenter_id, data)
    \/ \E address \in HrAddrs, value \in GatewayValues :
          GatewayWrite(address, value)

Spec == Init /\ [][Next]_vars

\* the update calls with fields omitted, for the chiller and for FV001, with
\* a gateway writing their mirror
NextFields ==
    \/ \E data \in ChillerFieldInputs : UpdateChillerData(data)
    \/ \E data \in FermenterFieldInputs : UpdateFermenterData(1, data)
    \/ \E value \in GatewayValues : GatewayWrite(SETPOINT_MIRROR, value)
    \/ RemoveFermenter(1)

SpecFields == Init /\ [][NextFields]_vars

TypeOK ==
    /\ server \in Servers
    /\ DOMAIN fermenters \subseteq Ids
    /\ \A x \in DOMAIN fermenters : fermenters[x] \in Slots
    /\ DOMAIN ir = IrAddrs
    /\ DOMAIN hr = HrAddrs
    /\ pending \in Seq([fx : {3, 4}, address : IrAddrs \cup HrAddrs, value : Int])
    /\ reply.kind \in {"none", "response", "exception"}
    /\ DOMAIN written = IrAddrs \cup HrAddrs
    /\ DOMAIN committed.ir = IrAddrs
    /\ DOMAIN committed.hr = HrAddrs

(***************************************************************************)
(* Vocabulary of the properties.                                           *)
(***************************************************************************)
Debug == server = "debug"
Main == server = "main"

\* the ids a call may be made for in the current state
Callable == {fermenter_id \in Ids : CanRegister(fermenter_id)}

\* the states the calls of the simulation driver lead to from the current one
AfterUpdate ==
    {AfterUpdateChillerData(data) : data \in ChillerInputs}
    \cup {AfterUpdateFermenterData(fermenter_id, data) :
             fermenter_id \in Callable, data \in FermenterInputs}

\* the states every call other than a gateway write leads to
AfterManager ==
    AfterUpdate
    \cup {AfterAddFermenter(fermenter_id) : fermenter_id \in Callable}
    \cup {AfterRemoveFermenter(fermenter_id) : fermenter_id \in Ids}

\* the step is a call of the simulation driver's update interface
UpdateStep == lastOp' \in {"UpdateChillerData", "UpdateFermenterData",
                           "UpdateFermenterData:adding"}

\* the values only a gateway puts into a holding register: no setpoint of
\* ChillerInputs or FermenterInputs scales to one of them
GatewayOnly ==
    (GatewayValues \ {0})
    \ ({Scale10(d.setpoint) : d \in ChillerInputs}
       \cup {Scale10(d.setpoint) : d \in FermenterInputs})

\* the smallest non-negative integer that is no slot index of the registry f
LeastFree(f) ==
    CHOOSE n \in 0..Cardinality(DOMAIN f) :
        /\ n \notin used_indices(f)
        /\ \A m \in 0..(n - 1) : m \in used_indices(f)

\* what a client reads from one cell of a store
Cell(store, fx, address) == getValues(server, store, fx, address, 1)[1]
InputCell(address) == Cell(ir, 4, address)
HoldingCell(address) == Cell(hr, 3, address)

\* the 10 cells of the block at base
Block(store, base) == getValues(server, store, 4, base, REGISTERS_PER_FERMENTER)

\* the setpoint an update publishes under the reconciliation policy
Reconciled(mirror, scaled) ==
    IF mirror # 0 /\ mirror # scaled THEN mirror ELSE scaled

(***************************************************************************)
(* C1.  Debug server, chiller setpoint precedence: an UpdateChillerData    *)
(* that finds the mirror 40001 at 0 leaves the scaled simulation setpoint  *)
(* in it (2.0 gives 20); once the mirror is non-zero (a gateway wrote v),  *)
(* no call other than a gateway write changes it, and read_setpoints       *)
(* reports chiller_setpoint = v / 10 after every such call.                *)
(***************************************************************************)
C1_SetpointPrecedence ==
    Debug =>
        /\ HoldingCell(SETPOINT_MIRROR) = 0
              => \A data \in ChillerInputs :
                    Cell(AfterUpdateChillerData(data).hr, 3, SETPOINT_MIRROR)
                       = Scale10(data.setpoint)
        /\ HoldingCell(SETPOINT_MIRROR) # 0
              => \A after \in AfterManager :
                    /\ Cell(after.hr, 3, SETPOINT_MIRROR)
                          = HoldingCell(SETPOINT_MIRROR)
                    /\ read_setpoints(server, after.fermenters,
                                      after.hr).chiller_setpoint
                          = Descale(HoldingCell(SETPOINT_MIRROR))

\* the gateway wrote 25 over the simulation's 20, an UpdateChillerData ran
\* after it and echoed 25 into the block
C1_Witness ==
    /\ Debug
    /\ lastOp = "UpdateChillerData"
    /\ HoldingCell(SETPOINT_MIRROR) = 25
    /\ InputCell(CHILLER_BASE + 6) = 25
    /\ read_setpoints(server, fermenters, hr).chiller_setpoint = 250

(***************************************************************************)
(* C2.  Debug server, gateway wins: after UpdateChillerData the cell       *)
(* CHILLER_BASE+6, and after UpdateFermenterData the cell base+1 of the    *)
(* slot, holds the slot's mirror value as it was before the call when that *)
(* was non-zero and different from the scaled setpoint of the fields, and  *)
(* the scaled setpoint of the fields otherwise.                            *)
(***************************************************************************)
C2_GatewayWins ==
    Debug =>
        /\ \A data \in ChillerInputs :
              Cell(AfterUpdateChillerData(data).ir, 4, CHILLER_BASE + 6)
                 = Reconciled(HoldingCell(SETPOINT_MIRROR),
                              Scale10(data.setpoint))
        /\ \A fermenter_id \in Callable, data \in FermenterInputs :
              LET after == AfterUpdateFermenterData(fermenter_id, data)
                  index == after.fermenters[fermenter_id]
              IN  Cell(after.ir, 4, base_addr(index) + 1)
                     = Reconciled(HoldingCell(SETPOINT_MIRROR + index),
                                  Scale10(data.setpoint))

\* a fermenter in slot 1 was updated while its mirror held the gateway's 25
C2_Witness ==
    /\ Debug
    /\ lastOp \in {"UpdateFermenterData", "UpdateFermenterData:adding"}
    /\ \E fermenter_id \in DOMAIN fermenters : fermenters[fermenter_id] = 1
    /\ HoldingCell(SETPOINT_MIRROR + 1) = 25
    /\ InputCell(base_addr(1) + 1) = 25
    /\ InputCell(base_addr(1)) = Scale10(1805)

(***************************************************************************)
(* C3.  Debug server: UpdateFermenterData changes the slot's mirror        *)
(* (40001 + index) only if the mirror held 0 or the sentinel 20 before the *)
(* call; when it held any other value the call leaves every holding        *)
(* register as it was.                                                     *)
(***************************************************************************)
C3_FermenterMirrorPreserved ==
    Debug =>
        \A fermenter_id \in Callable, data \in FermenterInputs :
            LET after == AfterUpdateFermenterData(fermenter_id, data)
                mirror == SETPOINT_MIRROR + after.fermenters[fermenter_id]
            IN  /\ Cell(after.hr, 3, mirror) # HoldingCell(mirror)
                      => HoldingCell(mirror) \in {0, DEFAULT_SENTINEL}
                /\ HoldingCell(mirror) \notin {0, DEFAULT_SENTINEL}
                      => after.hr = hr

\* the fermenter of slot 0 was updated while its mirror held the gateway's 25
C3_Witness ==
    /\ Debug
    /\ lastOp = "UpdateFermenterData"
    /\ \E fermenter_id \in DOMAIN fermenters : fermenters[fermenter_id] = 0
    /\ HoldingCell(SETPOINT_MIRROR) = 25
    /\ InputCell(base_addr(0) + 1) = 25

(***************************************************************************)
(* C4.  Baseline server (main.py): a holding mirror that holds a value a   *)
(* gateway wrote keeps it over every UpdateChillerData and                 *)
(* UpdateFermenterData call.                                               *)
(***************************************************************************)
C4_MainGatewayPreserved ==
    [][(Main /\ UpdateStep) =>
        \A address \in HrAddrs :
            HoldingCell(address) \in GatewayOnly
            => Cell(hr', 3, address) = HoldingCell(address)]_vars

\* the fermenter block section 3 of the specification lays out for complete
\* fields, with the given setpoint cell
FermenterBlockOf(data, setpoint_cell) ==
    << Scale10(data.current_temp), setpoint_cell, Scale10(data.supply_temp),
       Scale10(data.return_temp), IF data.cooling_active THEN 1 ELSE 0,
       Scale100(data.duty_cycle), IntOf(data.heat_load_to_chiller),
       IntOf(data.fermentation_heat), data.alarm_status, data.status >>

ZeroBlock == [i \in 1..REGISTERS_PER_FERMENTER |-> 0]

(***************************************************************************)
(* C5.  First fit: AddFermenter of an unregistered id registers it at the  *)
(* smallest non-negative integer that is no slot index of a registered     *)
(* fermenter, and initialises the block at FERMENTER_BASE + 10 * index; a  *)
(* slot freed by RemoveFermenter is handed out again.                      *)
(***************************************************************************)
C5_FirstFit ==
    \A fermenter_id \in Callable \ DOMAIN fermenters :
        LET after == AfterAddFermenter(fermenter_id)
            index == LeastFree(fermenters)
        IN  /\ fermenter_id \in DOMAIN after.fermenters
            /\ after.fermenters[fermenter_id] = index
            /\ Block(after.ir, FERMENTER_BASE + REGISTERS_PER_FERMENTER * index)
                  = initial_values

\* FV002 holds slot 1, slot 0 was used by an updated fermenter (its mirror
\* holds that setpoint), was freed, and AddFermenter has just put FV003 in it
C5_Witness ==
    /\ lastOp = "AddFermenter"
    /\ DOMAIN fermenters = {2, 3}
    /\ fermenters[2] = 1
    /\ fermenters[3] = 0
    /\ HoldingCell(SETPOINT_MIRROR) = Scale10(1800)
    /\ Block(ir, FERMENTER_BASE) = initial_values

(***************************************************************************)
(* C6.  RemoveFermenter of a registered id unregisters it, leaves 0 in the *)
(* 10 Input cells of its block and frees its slot index (no registered     *)
(* fermenter holds it, the others keep theirs, and the next AddFermenter   *)
(* takes it or a smaller one); RemoveFermenter of an unregistered id       *)
(* changes neither the registry nor a register cell.                       *)
(***************************************************************************)
C6_RemoveFermenter ==
    \A fermenter_id \in Ids :
        LET after == AfterRemoveFermenter(fermenter_id)
        IN  IF fermenter_id \in DOMAIN fermenters
            THEN /\ DOMAIN after.fermenters = DOMAIN fermenters \ {fermenter_id}
                 /\ \A x \in DOMAIN after.fermenters :
                       after.fermenters[x] = fermenters[x]
                 /\ Block(after.ir, base_addr(fermenters[fermenter_id]))
                       = ZeroBlock
                 /\ fermenters[fermenter_id] \notin used_indices(after.fermenters)
                 /\ LeastFree(after.fermenters) <= fermenters[fermenter_id]
            ELSE /\ after.fermenters = fermenters
                 /\ after.ir = ir
                 /\ after.hr = hr

\* the fermenter of slot 1 had been updated (its mirror holds the setpoint)
\* and has just been removed: its block is cleared and the slot is free
C6_Witness ==
    /\ lastOp = "RemoveFermenter"
    /\ HoldingCell(SETPOINT_MIRROR + 1) = Scale10(1800)
    /\ Block(ir, base_addr(1)) = ZeroBlock
    /\ 1 \notin used_indices(fermenters)
    /\ 0 \in used_indices(fermenters)

(***************************************************************************)
(* C7.  AddFermenter of a registered id is a no-op: registry, Input and    *)
(* Holding spaces are unchanged.                                           *)
(***************************************************************************)
C7_AddExistingNoOp ==
    \A fermenter_id \in DOMAIN fermenters :
        LET after == AfterAddFermenter(fermenter_id)
        IN  /\ after.fermenters = fermenters
            /\ after.ir = ir
            /\ after.hr = hr

\* AddFermenter has just been called for a registered id while the block
\* of every registered fermenter holds published data, not the defaults
C7_Witness ==
    /\ lastOp = "AddFermenter:exists"
    /\ Cardinality(DOMAIN fermenters) = MaxFermenters
    /\ \A fermenter_id \in DOMAIN fermenters :
          /\ Block(ir, base_addr(fermenters[fermenter_id])) # initial_values
          /\ InputCell(base_addr(fermenters[fermenter_id])) = Scale10(1805)

(***************************************************************************)
(* C8.  UpdateFermenterData for an unregistered id registers it at the     *)
(* lowest free slot and goes on with the update: afterwards the block of   *)
(* that slot holds the values of the fields, the setpoint cell being the   *)
(* scaled setpoint of the fields (in the debug server: after the gateway   *)
(* check against the slot's mirror), not the defaults of AddFermenter.     *)
(***************************************************************************)
C8_UpdateAutoRegisters ==
    \A fermenter_id \in Callable \ DOMAIN fermenters, data \in FermenterInputs :
        LET after == AfterUpdateFermenterData(fermenter_id, data)
            index == LeastFree(fermenters)
            scaled == Scale10(data.setpoint)
        IN  /\ fermenter_id \in DOMAIN after.fermenters
            /\ after.fermenters[fermenter_id] = index
            /\ Block(after.ir, base_addr(index))
                  = FermenterBlockOf(data,
                       IF Debug
                       THEN Reconciled(HoldingCell(SETPOINT_MIRROR + index), scaled)
                       ELSE scaled)
            /\ Block(after.ir, base_addr(index)) # initial_values

\* an update for an unregistered id has just registered it in slot 1 and
\* published its fields there
C8_Witness ==
    /\ lastOp = "UpdateFermenterData:adding"
    /\ \E fermenter_id \in DOMAIN fermenters :
          /\ fermenters[fermenter_id] = 1
          /\ Block(ir, base_addr(1))
                = FermenterBlockOf(FermenterData(1800), Scale10(1800))
    /\ 0 \in used_indices(fermenters)

\* the chiller block section 3 of the specification lays out for complete
\* fields, with the given setpoint cell
ChillerBlockOf(data, setpoint_cell) ==
    << Scale10(data.reservoir_temp), Scale10(data.supply_temp),
       Scale10(data.return_temp), IF data.compressor_running THEN 1 ELSE 0,
       IntOf(data.compressor_power), IntOf(data.total_heat_load),
       setpoint_cell, Scale10(data.efficiency), data.alarm_status,
       data.system_status >>

\* the setpoint cell an update publishes: the scaled setpoint of the fields,
\* in the debug server after the gateway check against the mirror
SetpointCell(mirror, scaled) ==
    IF Debug THEN Reconciled(mirror, scaled) ELSE scaled

(***************************************************************************)
(* C9.  After UpdateChillerData(fields) the Input cells CHILLER_BASE+0..9  *)
(* hold reservoir_temp*10, supply_temp*10, return_temp*10,                 *)
(* compressor_running as 0/1, compressor_power, total_heat_load,           *)
(* setpoint*10 (after any gateway override), efficiency*10, alarm_status,  *)
(* system_status; cell 30002 holds supply_temp*10.                         *)
(***************************************************************************)
C9_ChillerBlockLayout ==
    [][\A data \in ChillerInputs :
          (lastOp' = "UpdateChillerData" /\ UpdateChillerData(data))
          => /\ Block(ir', CHILLER_BASE)
                   = ChillerBlockOf(data,
                        SetpointCell(HoldingCell(SETPOINT_MIRROR),
                                     Scale10(data.setpoint)))
             /\ Cell(ir', 4, 30002) = Scale10(data.supply_temp)]_vars

(***************************************************************************)
(* C10.  As claimed: for every field of the chiller block and of a         *)
(* fermenter block, an update whose fields omit it publishes 0 in the      *)
(* field's cell.                                                           *)
(***************************************************************************)
C10_OmittedIsZero ==
    [][/\ \A data \in ChillerFieldInputs :
            (lastOp' = "UpdateChillerData" /\ UpdateChillerData(data))
            => \A i \in 1..Len(ChillerFields) :
                  ChillerFields[i] \notin DOMAIN data
                  => Cell(ir', 4, CHILLER_BASE + i - 1) = 0
       /\ \A data \in FermenterFieldInputs :
            (lastOp' \in {"UpdateFermenterData", "UpdateFermenterData:adding"}
               /\ UpdateFermenterData(1, data))
            => \A i \in 1..Len(FermenterFields) :
                  FermenterFields[i] \notin DOMAIN data
                  => Cell(ir', 4, base_addr(fermenters'[1]) + i - 1) = 0]_vars

(***************************************************************************)
(* C10, amended.  An omitted field enters the block with its default: 0 or *)
(* false, and 1 for system_status (chiller) and status (fermenter).  So    *)
(* the cell of an omitted field holds 0, except: the system_status/status  *)
(* cell holds 1; the setpoint cell holds the mirror's value when the debug *)
(* server finds the mirror non-zero; and in the debug server the chiller's *)
(* supply_temp cell 30002 holds what the setpoint cell holds.              *)
(***************************************************************************)
OmittedChillerCell(i, after) ==
    IF ChillerFields[i] = "system_status" THEN 1
    ELSE IF ChillerFields[i] = "setpoint"
         THEN SetpointCell(HoldingCell(SETPOINT_MIRROR), 0)
    ELSE IF ChillerFields[i] = "supply_temp" /\ Debug
         THEN Cell(after.ir, 4, CHILLER_BASE + 6)
    ELSE 0

OmittedFermenterCell(i, index) ==
    IF FermenterFields[i] = "status" THEN 1
    ELSE IF FermenterFields[i] = "setpoint"
         THEN SetpointCell(HoldingCell(SETPOINT_MIRROR + index), 0)
    ELSE 0

C10_OmittedDefaults ==
    /\ \A data \in ChillerFieldInputs :
          LET after == AfterUpdateChillerData(data)
          IN  \A i \in 1..Len(ChillerFields) :
                 ChillerFields[i] \notin DOMAIN data
                 => Cell(after.ir, 4, CHILLER_BASE + i - 1)
                       = OmittedChillerCell(i, after)
    /\ \A data \in FermenterFieldInputs :
          LET after == AfterUpdateFermenterData(1, data)
              index == after.fermenters[1]
          IN  \A i \in 1..Len(FermenterFields) :
                 FermenterFields[i] \notin DOMAIN data
                 => Cell(after.ir, 4, base_addr(index) + i - 1)
                       = OmittedFermenterCell(i, index)

\* an UpdateChillerData whose fields omit system_status alone (the other
\* cells hold the values of the fields) has published 1 in its cell
C10_Witness ==
    /\ lastOp = "UpdateChillerData"
    /\ InputCell(CHILLER_BASE + 9) = 1
    /\ InputCell(CHILLER_BASE) = Scale10(215)
    /\ InputCell(CHILLER_BASE + 8) = 3
    /\ InputCell(CHILLER_BASE + 2) = Scale10(875)


(***************************************************************************)
(* The query interfaces.  A query runs without a suspension point too; its *)
(* step records the call in lastOp, and what it returns is a function of   *)
(* the state it is made in.                                                *)
(***************************************************************************)
\* get_register_map(): the address of every field
get_register_map(f) ==
    [chiller |->
        [reservoir_temp |-> CHILLER_BASE + 0,
         supply_temp |-> CHILLER_BASE + 1,
         return_temp |-> CHILLER_BASE + 2,
         compressor_running |-> CHILLER_BASE + 3,
         compressor_power |-> CHILLER_BASE + 4,
         total_heat_load |-> CHILLER_BASE + 5,
         setpoint |-> CHILLER_BASE + 6,
         efficiency |-> CHILLER_BASE + 7,
         alarm_status |-> CHILLER_BASE + 8,
         system_status |-> CHILLER_BASE + 9],
     fermenters |->
        [fermenter_id \in DOMAIN f |->
            LET base == FERMENTER_BASE + (f[fermenter_id] * REGISTERS_PER_FERMENTER)
            IN  [base_address |-> base,
                 current_temp |-> base + 0,
                 setpoint |-> base + 1,
                 supply_temp |-> base + 2,
                 return_temp |-> base + 3,
                 cooling_active |-> base + 4,
                 duty_cycle |-> base + 5,
                 heat_load |-> base + 6,
                 fermentation_heat |-> base + 7,
                 alarm_status |-> base + 8,
                 status |-> base + 9]]]

\* the name get_register_map gives a fermenter field of the update call
MapField(field) ==
    IF field = "heat_load_to_chiller" THEN "heat_load" ELSE field

\* the fermenters the operator console works with: "FV001" and "FV002"
QueryIds == {1, 2}

\* read_setpoints() assigns neither self.fermenters nor a register
AfterReadSetpoints ==
    [fermenters |-> fermenters, ir |-> ir, hr |-> hr,
     lastOp |-> "ReadSetpoints",
     result |-> read_setpoints(server, fermenters, hr)]

\* get_register_map() assigns neither self.fermenters nor a register
AfterGetRegisterMap ==
    [fermenters |-> fermenters, ir |-> ir, hr |-> hr,
     lastOp |-> "GetRegisterMap",
     result |-> get_register_map(fermenters)]

GetRegisterMap == StepTo(AfterGetRegisterMap)

ReadSetpoints == StepTo(AfterReadSetpoints)

NextQueries ==
    \/ \E fermenter_id \in QueryIds : AddFermenter(fermenter_id)
    \/ \E fermenter_id \in QueryIds : RemoveFermenter(fermenter_id)
    \/ \E data \in ChillerInputs : UpdateChillerData(data)
    \/ \E fermenter_id \in QueryIds, data \in FermenterInputs :
          UpdateFermenterData(fermenter_id, data)
    \/ \E address \in HrAddrs, value \in GatewayValues :
          GatewayWrite(address, value)
    \/ ReadSetpoints
    \/ GetRegisterMap

SpecQueries == Init /\ [][NextQueries]_vars

(***************************************************************************)
(* C11.  ReadSetpoints returns chiller_setpoint = (holding cell 40001)/10  *)
(* and, for exactly the registered fermenter ids, the value of the         *)
(* holding cell 40001 + index divided by 10, whoever wrote the cell last;  *)
(* the call changes neither the registry nor a register cell.              *)
(***************************************************************************)
C11_ReadSetpoints ==
    LET after == AfterReadSetpoints
    IN  /\ after.result.chiller_setpoint = 10 * hr[40001]
        /\ DOMAIN after.result.fermenters = DOMAIN fermenters
        /\ \A fermenter_id \in DOMAIN fermenters :
              after.result.fermenters[fermenter_id]
                 = 10 * hr[40001 + fermenters[fermenter_id]]
        /\ after.fermenters = fermenters
        /\ after.ir = ir
        /\ after.hr = hr

\* ReadSetpoints ran right after a gateway wrote 25 into the mirror of the
\* fermenter in slot 1, and reports 2.5 for it
C11_Witness ==
    /\ lastOp = "ReadSetpoints"
    /\ \E fermenter_id \in DOMAIN fermenters :
          /\ fermenters[fermenter_id] = 1
          /\ read_setpoints(server, fermenters, hr).fermenters[fermenter_id] = 250
    /\ hr[40002] = 25


\* the value an update call stores for the i-th field of its block: the
\* field's scaled value, the setpoint as reconciled with the slot's mirror
StoredChiller(data, i) ==
    ChillerBlockOf(data, SetpointCell(HoldingCell(SETPOINT_MIRROR),
                                      Scale10(data.setpoint)))[i]

StoredFermenter(data, index, i) ==
    FermenterBlockOf(data, SetpointCell(HoldingCell(SETPOINT_MIRROR + index),
                                        Scale10(data.setpoint)))[i]

(***************************************************************************)
(* C12.  GetRegisterMap agrees with the write layout: it lists exactly the *)
(* registered fermenter ids with base_address = FERMENTER_BASE + 10*index, *)
(* and right after an Update call the Input cell at the address the map    *)
(* reports for a field holds the value the call stored for that field.     *)
(***************************************************************************)
C12_RegisterMapAgrees ==
    [][/\ \A data \in ChillerInputs :
            (lastOp' = "UpdateChillerData" /\ UpdateChillerData(data))
            => LET map == get_register_map(fermenters')
               IN  \A i \in 1..Len(ChillerFields) :
                      Cell(ir', 4, map.chiller[ChillerFields[i]])
                         = StoredChiller(data, i)
       /\ \A fermenter_id \in QueryIds, data \in FermenterInputs :
            (lastOp' \in {"UpdateFermenterData", "UpdateFermenterData:adding"}
               /\ UpdateFermenterData(fermenter_id, data))
            => LET map == get_register_map(fermenters')
                   index == fermenters'[fermenter_id]
               IN  /\ DOMAIN map.fermenters = DOMAIN fermenters'
                   /\ map.fermenters[fermenter_id].base_address
                         = FERMENTER_BASE + index * 10
                   /\ \A i \in 1..Len(FermenterFields) :
                         Cell(ir', 4, map.fermenters[fermenter_id]
                                         [MapField(FermenterFields[i])])
                            = StoredFermenter(data, index, i)]_vars


(***************************************************************************)
(* The device context as a client's request reaches it.  The undecorated   *)
(* ModbusDeviceContext answers a read whose cells lie inside the block     *)
(* with their values and any other read with the exception code for an     *)
(* illegal address (no list); a write outside the block is refused with    *)
(* the same code and writes nothing.                                       *)
(***************************************************************************)
\* super().getValues(fx, address, count)
device_getValues(srv, store, fx, address, count) ==
    IF InBlock(srv, fx, address, count)
    THEN [exception |-> "none",
          values |-> getValues(srv, store, fx, address, count)]
    ELSE [exception |-> "IllegalAddress", values |-> << >>]

\* DebuggingModbusDeviceContext.getValues: the value of super().getValues,
\* but when decoding it for the log raises (it is no list), count zeros
debug_getValues(srv, store, fx, address, count) ==
    LET values == device_getValues(srv, store, fx, address, count)
    IN  IF values.exception = "none"
        THEN values
        ELSE [exception |-> "none", values |-> [i \in 1..count |-> 0]]

\* the context the server was set up with
context_getValues(srv, store, fx, address, count) ==
    IF srv = "debug"
    THEN debug_getValues(srv, store, fx, address, count)
    ELSE device_getValues(srv, store, fx, address, count)

\* the return code of setValues: both contexts return super().setValues()
context_setValues_rc(srv, fx, address, values) ==
    IF InBlock(srv, fx, address, Len(values)) THEN "none" ELSE "IllegalAddress"

\* the protocol layer answers with the values, or with an exception
\* response when the context returned an exception code
ReadReply(fx, address, count, result) ==
    [kind |-> IF result.exception = "none" THEN "response" ELSE "exception",
     fx |-> fx, address |-> address, count |-> count,
     values |-> result.values, code |-> result.exception]

WriteReply(fx, address, values, rc) ==
    [kind |-> IF rc = "none" THEN "response" ELSE "exception",
     fx |-> fx, address |-> address, count |-> Len(values),
     values |-> << >>, code |-> rc]


(***************************************************************************)
(* The simulation task and the clients on the event loop.  main() gathers  *)
(* start_server() and simulation_task(): one thread runs both, and a       *)
(* coroutine gives way only at an await.  simulation_task awaits only its  *)
(* sleeps; between two sleeps it makes the register writes of one tick,    *)
(* one cell at a time (pending holds those still to be made).  The first   *)
(* tick follows add_test_data and the two add_fermenter calls without an   *)
(* await.                                                                  *)
(***************************************************************************)
Write(fx, address, value) == [fx |-> fx, address |-> address, value |-> value]

\* for addr, value in registers: setValues(4, addr, [value])
block_writes(base, registers) ==
    [i \in 1..Len(registers) |-> Write(4, base + i - 1, registers[i])]

\* the writes of update_chiller_data, in order
chiller_writes(srv, hrS, data0) ==
    IF srv = "debug"
    THEN LET current_setpoint_raw == getValues(srv, hrS, 3, SETPOINT_MIRROR, 1)[1]
             data == gateway_override(data0, current_setpoint_raw)
             registers == chiller_registers(data)
             setpoint_value == Scale10(Get(data, "setpoint", 0))
         IN  block_writes(CHILLER_BASE, registers)
             \o << Write(4, CHILLER_SETPOINT_ECHO, setpoint_value) >>
             \o (IF current_setpoint_raw = 0
                    \/ current_setpoint_raw = DEFAULT_SENTINEL
                 THEN << Write(3, SETPOINT_MIRROR, setpoint_value) >>
                 ELSE << >>)
    ELSE LET registers == chiller_registers(data0)
         IN  block_writes(CHILLER_BASE, registers)
             \o << Write(3, SETPOINT_MIRROR, registers[7]) >>

\* the writes of update_fermenter_data for a registered fermenter, in order
fermenter_writes(srv, f, hrS, fermenter_id, data0) ==
    LET fermenter_index == f[fermenter_id]
        mirror == SETPOINT_MIRROR + fermenter_index
    IN  IF srv = "debug"
        THEN LET current_setpoint_raw == getValues(srv, hrS, 3, mirror, 1)[1]
                 data == gateway_override(data0, current_setpoint_raw)
                 registers == fermenter_registers(data)
             IN  block_writes(base_addr(fermenter_index), registers)
                 \o << Write(3, mirror, registers[2]) >>
                 \o (IF registers[2] = 0 \/ registers[2] = DEFAULT_SENTINEL
                     THEN << Write(3, mirror, registers[2]) >>
                     ELSE << >>)
        ELSE LET registers == fermenter_registers(data0)
             IN  block_writes(base_addr(fermenter_index), registers)
                 \o << Write(3, mirror, registers[2]) >>

\* the cells of this model add_test_data writes (debug server only): the
\* two words of 1850 at 30002 and 30003
add_test_data_writes(srv) ==
    IF srv = "debug"
    THEN << Write(4, 30002, 0), Write(4, 30003, 1850) >>
    ELSE << >>

\* the store after the writes to space fx were made in order
RECURSIVE apply_writes(_, _, _, _)
apply_writes(srv, store, fx, writes) ==
    IF writes = << >>
    THEN store
    ELSE LET w == Head(writes)
         IN  apply_writes(srv,
                          IF w.fx = fx
                          THEN setValues(srv, store, fx, w.address, << w.value >>)
                          ELSE store,
                          fx, Tail(writes))

\* the registry once simulation_task has added "FV001" and "FV002"
simulation_fermenters(srv, f, irS) ==
    LET first == add_fermenter(srv, f, irS, 1)
    IN  add_fermenter(srv, first.fermenters, first.ir, 2).fermenters

\* what simulation_task writes before its first tick
startup_writes(srv, f, irS) ==
    LET registry == simulation_fermenters(srv, f, irS)
    IN  add_test_data_writes(srv)
        \o (IF 1 \in DOMAIN f THEN << >>
            ELSE block_writes(base_addr(registry[1]), initial_values))
        \o (IF 2 \in DOMAIN f THEN << >>
            ELSE block_writes(base_addr(registry[2]), initial_values))

\* the writes of one pass of the simulation loop: the chiller, then "FV001"
\* (setpoint 18.0) and "FV002" (setpoint 19.0), each update reading the
\* mirrors as the writes before it left them
tick_writes(srv, f, hrS) ==
    LET first == chiller_writes(srv, hrS, ChillerData(200))
        hr1 == apply_writes(srv, hrS, 3, first)
        second == fermenter_writes(srv, f, hr1, 1, FermenterData(1800))
        hr2 == apply_writes(srv, hr1, 3, second)
        third == fermenter_writes(srv, f, hr2, 2, FermenterData(1900))
    IN  first \o second \o third

\* mutant of ClientCanRun: a request handler runs whatever the simulation
\* task is doing (a server thread of its own)
ClientCanRunAnytime(writes) == TRUE

\* the event loop runs a client's request handler only while the simulation
\* task is suspended in a sleep, that is between two ticks
ClientCanRun(writes) == writes = << >>

\* the cells the writes touch take the values written
Record(history, address, values) ==
    [a \in DOMAIN history |->
        IF a >= address /\ a < address + Len(values)
        THEN history[a] \cup {values[a - address + 1]}
        ELSE history[a]]

\* simulation_task wakes up: at its start it runs add_test_data and the two
\* add_fermenter calls first
SimTick ==
    /\ pending = << >>
    /\ LET started == 1 \in DOMAIN fermenters
           registry == IF started THEN fermenters
                       ELSE simulation_fermenters(server, fermenters, ir)
       IN  /\ fermenters' = registry
           /\ pending' = (IF started THEN << >>
                          ELSE startup_writes(server, fermenters, ir))
                         \o tick_writes(server, registry, hr)
    /\ lastOp' = "SimTick"
    /\ UNCHANGED <<server, ir, hr, reply, written, committed>>

\* the next setValues call of the tick
SimWrite ==
    /\ pending # << >>
    /\ LET w == Head(pending)
       IN  /\ ir' = IF w.fx = 4
                    THEN setValues(server, ir, 4, w.address, << w.value >>)
                    ELSE ir
           /\ hr' = IF w.fx = 3
                    THEN setValues(server, hr, 3, w.address, << w.value >>)
                    ELSE hr
           /\ written' = Record(written, w.address, << w.value >>)
    /\ pending' = Tail(pending)
    /\ committed' = IF pending' = << >>
                    THEN [ir |-> ir', hr |-> hr']
                    ELSE committed
    /\ lastOp' = "SimWrite"
    /\ UNCHANGED <<server, fermenters, reply>>

\* the space a function code addresses
StoreOf(fx) == IF fx = 4 THEN ir ELSE hr

\* a client's read request (function code 3 or 4) is answered
ClientRead(fx, address, count) ==
    /\ ClientCanRun(pending)
    /\ reply' = ReadReply(fx, address, count,
                    context_getValues(server, StoreOf(fx), fx, address, count))
    /\ lastOp' = "ClientRead"
    /\ UNCHANGED <<server, fermenters, ir, hr, pending, written, committed>>

\* a client's write request for holding registers (function code 16) is
\* carried out and answered
ClientWrite(address, values) ==
    /\ ClientCanRun(pending)
    /\ hr' = setValues(server, hr, 16, address, values)
    /\ reply' = WriteReply(16, address, values,
                           context_setValues_rc(server, 16, address, values))
    /\ written' = IF InBlock(server, 16, address, Len(values))
                  THEN Record(written, address, values)
                  ELSE written
    /\ committed' = [ir |-> ir, hr |-> hr']
    /\ lastOp' = "ClientWrite"
    /\ UNCHANGED <<server, fermenters, ir, pending>>

\* the requests of the clients of this model: the mirrors, the chiller
\* block, the block of slot 0, and a range that runs off the end of every
\* register space
ReadRequests ==
    { <<3, SETPOINT_MIRROR, 1>>, <<3, SETPOINT_MIRROR, 2>>,
      <<4, CHILLER_BASE, 10>>, <<4, FERMENTER_BASE, 10>>,
      <<4, 65535, 2>>, <<3, 65535, 2>> }

WriteRequests ==
    { <<SETPOINT_MIRROR, <<v, w>> >> : v \in GatewayValues, w \in GatewayValues }
    \cup { <<SETPOINT_MIRROR + 1, <<v>> >> : v \in GatewayValues }
    \cup { <<65535, <<25, 25>> >> }

NextClients ==
    \/ SimTick
    \/ SimWrite
    \/ \E r \in ReadRequests : ClientRead(r[1], r[2], r[3])
    \/ \E r \in WriteRequests : ClientWrite(r[1], r[2])

SpecClients == Init /\ [][NextClients]_vars

\* the running tick leaves the stores as the three update calls leave them
TickIsTheUpdates ==
    /\ \A data \in ChillerInputs :
        LET r == IF server = "debug"
                 THEN update_chiller_data(server, ir, hr, data)
                 ELSE main_update_chiller_data(server, ir, hr, data)
            w == chiller_writes(server, hr, data)
        IN  /\ apply_writes(server, ir, 4, w) = r.ir
            /\ apply_writes(server, hr, 3, w) = r.hr
    /\ \A fermenter_id \in DOMAIN fermenters, data \in FermenterInputs :
        LET r == IF server = "debug"
                 THEN update_fermenter_data(server, fermenters, ir, hr,
                                            fermenter_id, data)
                 ELSE main_update_fermenter_data(server, fermenters, ir, hr,
                                                 fermenter_id, data)
            w == fermenter_writes(server, fermenters, hr, fermenter_id, data)
        IN  /\ apply_writes(server, ir, 4, w) = r.ir
            /\ apply_writes(server, hr, 3, w) = r.hr


\* the cells of a store a request names
Slice(store, address, count) == [i \in 1..count |-> store[address + i - 1]]

(***************************************************************************)
(* C13.  No torn reads: every value in the reply to a client's read of     *)
(* cells is a value that was written to that cell, or its initial value,   *)
(* and the reply is what completed operations left in the cells: no write  *)
(* of the simulation task or of another client is seen partially made.     *)
(***************************************************************************)
C13_NoTornReads ==
    (/\ lastOp = "ClientRead"
     /\ InBlock(server, reply.fx, reply.address, reply.count))
    => /\ reply.kind = "response"
       /\ \A i \in 1..reply.count :
             reply.values[i] \in written[reply.address + i - 1]
       /\ reply.values
             = Slice(IF reply.fx = 4 THEN committed.ir ELSE committed.hr,
                     reply.address, reply.count)

\* a client read the chiller block after a tick that published the
\* gateway's 25 as setpoint
C13_Witness ==
    /\ lastOp = "ClientRead"
    /\ reply.fx = 4
    /\ reply.address = CHILLER_BASE
    /\ reply.count = 10
    /\ reply.values[1] = Scale10(215)
    /\ reply.values[7] = 25
    /\ reply.values[10] = 2


\* the request the last reply answers does not lie inside its register space
OutOfRange == ~InBlock(server, reply.fx, reply.address, reply.count)

(***************************************************************************)
(* C14.  Fail closed: when the store read behind a client's read request   *)
(* fails, the device context returns an error signal with its zeros, and   *)
(* the protocol layer answers with an exception response, not with a       *)
(* normal response carrying zeros.                                         *)
(***************************************************************************)
C14_FailClosed ==
    (lastOp = "ClientRead" /\ OutOfRange)
    => /\ reply.kind = "exception"
       /\ context_getValues(server, StoreOf(reply.fx), reply.fx,
                            reply.address, reply.count).exception # "none"

(***************************************************************************)
(* C15.  Decoration transparency: the logging device context of the debug  *)
(* server returns for every read what the undecorated context returns,     *)
(* and its write is the undecorated write.                                 *)
(***************************************************************************)
C15_DecorationTransparent ==
    /\ lastOp = "ClientRead"
          => reply = ReadReply(reply.fx, reply.address, reply.count,
                        device_getValues(server, StoreOf(reply.fx), reply.fx,
                                         reply.address, reply.count))
    /\ lastOp = "ClientWrite"
          => /\ reply.code = context_setValues_rc(server, reply.fx, reply.address,
                                 [i \in 1..reply.count |-> 0])
             /\ ir = committed.ir
             /\ hr = committed.hr

(***************************************************************************)
(* C16.  Range rejection: a read or write whose range is not entirely      *)
(* inside its register space is answered with the illegal-address          *)
(* exception and changes no cell (so is a read of input registers at       *)
(* 65535 with count 2).                                                    *)
(***************************************************************************)
C16_RangeRejection ==
    [][(lastOp' \in {"ClientRead", "ClientWrite"}
          /\ ~InBlock(server, reply'.fx, reply'.address, reply'.count))
       => /\ reply'.kind = "exception"
          /\ reply'.code = "IllegalAddress"
          /\ ir' = ir
          /\ hr' = hr]_vars

(***************************************************************************)
(* C17.  Holding-register round trip: after a function 16 write of values  *)
(* at an address in range, a function 3 read of as many registers at that  *)
(* address, with no write in between, returns those values in order.       *)
(***************************************************************************)
C17_RoundTrip ==
    ClientCanRun(pending)
    => \A w \in WriteRequests :
          InBlock(server, 16, w[1], Len(w[2]))
          => LET written_hr == setValues(server, hr, 16, w[1], w[2])
                 answer == ReadReply(3, w[1], Len(w[2]),
                              context_getValues(server, written_hr, 3,
                                                w[1], Len(w[2])))
             IN  /\ answer.kind = "response"
                 /\ answer.values = w[2]

\* a client read back the two registers at 40001 that a function 16 write
\* had set to 25 and 0
C17_Witness ==
    /\ lastOp = "ClientRead"
    /\ reply.kind = "response"
    /\ reply.fx = 3
    /\ reply.address = SETPOINT_MIRROR
    /\ reply.values = <<25, 0>>
    /\ fermenters = << >>


(***************************************************************************)
(* The simulation driver keeps ticking: the loop of simulation_task calls  *)
(* update_chiller_data on every pass and never ends, so a chiller update   *)
(* that would change the state is eventually made.                         *)
(***************************************************************************)
\* what a gateway writes into a mirror here: nothing, the value the
\* simulation itself would write, and a setpoint of its own
LiveGatewayValues == GatewayValues \cup {DEFAULT_SENTINEL}

ChillerTick == \E data \in ChillerInputs : UpdateChillerData(data)

\* the chiller's ticks, the calls for "FV001" (whose slot 0 has the mirror
\* 40001 + 0) and a gateway writing that cell
NextLive ==
    \/ ChillerTick
    \/ \E data \in FermenterInputs : UpdateFermenterData(1, data)
    \/ RemoveFermenter(1)
    \/ \E value \in LiveGatewayValues : GatewayWrite(SETPOINT_MIRROR, value)

SpecLive == Init /\ [][NextLive]_vars /\ WF_vars(ChillerTick)

(***************************************************************************)
(* C19.  Debug server: once the chiller mirror 40001 holds a non-zero      *)
(* value v (a gateway wrote it), then unless a gateway writes the cell     *)
(* again the setpoint cell CHILLER_BASE+6 eventually equals v; only a      *)
(* gateway write takes v out of the mirror, every chiller tick made while  *)
(* the mirror holds v publishes v, and the cell keeps v in between.        *)
(***************************************************************************)
C19_GatewaySetpointPublished ==
    /\ \A v \in LiveGatewayValues \ {0} :
          (Debug /\ HoldingCell(SETPOINT_MIRROR) = v)
             ~> (InputCell(CHILLER_BASE + 6) = v
                 \/ HoldingCell(SETPOINT_MIRROR) # v)
    /\ [][\A v \in LiveGatewayValues \ {0} :
            (Debug /\ HoldingCell(SETPOINT_MIRROR) = v)
            => /\ Cell(hr', 3, SETPOINT_MIRROR) # v
                     => lastOp' = "GatewayWrite"
               /\ lastOp' = "UpdateChillerData"
                     => Cell(ir', 4, CHILLER_BASE + 6) = v
               /\ (InputCell(CHILLER_BASE + 6) = v
                     /\ Cell(hr', 3, SETPOINT_MIRROR) = v)
                     => Cell(ir', 4, CHILLER_BASE + 6) = v]_vars

\* a tick has published the 25 a gateway wrote into the chiller mirror, in
\* the setpoint cell and in 30002
C19_Witness ==
    /\ Debug
    /\ lastOp = "UpdateChillerData"
    /\ HoldingCell(SETPOINT_MIRROR) = 25
    /\ InputCell(CHILLER_BASE + 6) = 25
    /\ InputCell(CHILLER_SETPOINT_ECHO) = 25


\* the holding register update_chiller_data reads as the chiller's mirror
chiller_mirror == SETPOINT_MIRROR

\* the holding register update_fermenter_data reads as the mirror of a slot
fermenter_mirror(fermenter_index) == SETPOINT_MIRROR + fermenter_index

(***************************************************************************)
(* C20.  Each slot has its own mirror: the chiller's mirror and the        *)
(* mirrors of the registered fermenters are pairwise distinct holding      *)
(* registers, and a step that writes the chiller's mirror (a gateway write *)
(* to it or a chiller update) changes no fermenter's setpoint as           *)
(* ReadSetpoints reports it.                                               *)
(***************************************************************************)
C20_OwnMirrors ==
    [][/\ \A x \in DOMAIN fermenters' :
             /\ fermenter_mirror(fermenters'[x]) # chiller_mirror
             /\ \A y \in DOMAIN fermenters' \ {x} :
                   fermenter_mirror(fermenters'[x])
                      # fermenter_mirror(fermenters'[y])
       /\ (lastOp' = "UpdateChillerData"
             \/ (lastOp' = "GatewayWrite"
                   /\ \A a \in HrAddrs \ {chiller_mirror} : hr'[a] = hr[a]))
          => read_setpoints(server, fermenters', hr').fermenters
                = read_setpoints(server, fermenters, hr).fermenters]_vars


(***************************************************************************)
(* The simulation driver alone: no gateway writes a holding register, and  *)
(* the setpoints the driver supplies change from one call to the next.     *)
(***************************************************************************)
\* the chiller's setpoint 2.0 of simulation_task, and 2.5 after a change
SimChillerInputs == {ChillerData(200), ChillerData(250)}

\* the setpoints 18.0 + i of simulation_task
SimFermenterInputs == {FermenterData(1800), FermenterData(1900)}

NextSim ==
    \/ \E fermenter_id \in QueryIds : AddFermenter(fermenter_id)
    \/ \E fermenter_id \in QueryIds : RemoveFermenter(fermenter_id)
    \/ \E data \in SimChillerInputs : UpdateChillerData(data)
    \/ \E fermenter_id \in QueryIds, data \in SimFermenterInputs :
          UpdateFermenterData(fermenter_id, data)

SpecSim == Init /\ [][NextSim]_vars

(***************************************************************************)
(* C21.  No phantom override: when no gateway ever writes a holding        *)
(* register, every UpdateChillerData and UpdateFermenterData call, after   *)
(* any sequence of add, remove and update calls with any setpoints,        *)
(* publishes in the setpoint cell of its block the scaled setpoint of the  *)
(* fields it was called with.                                              *)
(***************************************************************************)
C21_NoPhantomOverride ==
    /\ \A data \in SimChillerInputs :
          Cell(AfterUpdateChillerData(data).ir, 4, CHILLER_BASE + 6)
             = Scale10(data.setpoint)
    /\ \A fermenter_id \in QueryIds, data \in SimFermenterInputs :
          CanRegister(fermenter_id)
          => LET after == AfterUpdateFermenterData(fermenter_id, data)
                 index == after.fermenters[fermenter_id]
             IN  Cell(after.ir, 4, base_addr(index) + 1)
                    = Scale10(data.setpoint)


(***************************************************************************)
(* C22.  Slot reuse does not leak setpoints: when RemoveFermenter has      *)
(* freed a slot and a fermenter is then added into that slot, with no      *)
(* gateway write after the add, the first UpdateFermenterData for the new  *)
(* fermenter publishes the setpoint of its own fields, and ReadSetpoints   *)
(* reports that setpoint for it.                                           *)
(***************************************************************************)
C22_NoSetpointLeak ==
    [][\A removed \in DOMAIN fermenters \ DOMAIN fermenters' :
          \A fermenter_id \in Ids \ DOMAIN fermenters', data \in FermenterInputs :
             LET freed == fermenters[removed]
                 added == add_fermenter(server, fermenters', ir', fermenter_id)
                 r == IF server = "debug"
                      THEN update_fermenter_data(server, added.fermenters,
                                                 added.ir, hr', fermenter_id, data)
                      ELSE main_update_fermenter_data(server, added.fermenters,
                                                      added.ir, hr', fermenter_id, data)
             IN  added.fermenters[fermenter_id] = freed
                 => /\ Cell(r.ir, 4, base_addr(freed) + 1) = Scale10(data.setpoint)
                    /\ read_setpoints(server, r.fermenters, r.hr)
                          .fermenters[fermenter_id]
                          = Descale(Scale10(data.setpoint))]_vars


(***************************************************************************)
(* C23.  Debug server, no lost gateway write: a gateway write takes effect *)
(* only while no update call is running (an update has no suspension       *)
(* point between its read of the mirror and its write-back), and no step   *)
(* of the simulation task changes a holding mirror that holds a non-zero   *)
(* value; so the value a gateway wrote is in the mirror after the update   *)
(* that runs next.                                                         *)
(***************************************************************************)
C23_NoLostGatewayWrite ==
    [][Debug =>
        /\ lastOp' = "ClientWrite" => pending = << >>
        /\ lastOp' \in {"SimTick", "SimWrite"}
              => \A address \in HrAddrs :
                    hr[address] # 0 => hr'[address] = hr[address]]_vars

\* a tick has run to its end after a gateway wrote 25 into the mirror of
\* slot 1: the 25 is still there and the tick has published it
C23_Witness ==
    /\ Debug
    /\ lastOp = "SimWrite"
    /\ pending = << >>
    /\ HoldingCell(SETPOINT_MIRROR + 1) = 25
    /\ InputCell(base_addr(1) + 1) = 25
    /\ committed.hr = hr


(***************************************************************************)
(* The simulation driver with changing setpoints and a gateway that writes *)
(* the mirrors, the sentinel value 20 among its values.                    *)
(***************************************************************************)
NextMirror ==
    \/ \E fermenter_id \in QueryIds : AddFermenter(fermenter_id)
    \/ \E fermenter_id \in QueryIds : RemoveFermenter(fermenter_id)
    \/ \E data \in SimChillerInputs : UpdateChillerData(data)
    \/ \E fermenter_id \in QueryIds, data \in SimFermenterInputs :
          UpdateFermenterData(fermenter_id, data)
    \/ \E address \in HrAddrs, value \in LiveGatewayValues :
          GatewayWrite(address, value)

SpecMirror == Init /\ [][NextMirror]_vars

WideChillerInputs ==
    ChillerInputs
    \cup {[data EXCEPT !.reservoir_temp = -250] : data \in ChillerInputs}
    \cup {[data EXCEPT !.total_heat_load = 7000000] : data \in ChillerInputs}

\* fermenter fields with current_temp -1.5, and with heat_load_to_chiller 70000
WideFermenterInputs ==
    FermenterInputs
    \cup {[data EXCEPT !.current_temp = -150] : data \in FermenterInputs}
    \cup {[data EXCEPT !.heat_load_to_chiller = 7000000] : data \in FermenterInputs}

NextWide ==
    \/ \E data \in WideChillerInputs : UpdateChillerData(data)
    \/ \E fermenter_id \in QueryIds, data \in WideFermenterInputs :
          UpdateFermenterData(fermenter_id, data)
    \/ \E fermenter_id \in QueryIds : RemoveFermenter(fermenter_id)
    \/ \E value \in GatewayValues : GatewayWrite(SETPOINT_MIRROR, value)

SpecWide == Init /\ [][NextWide]_vars

(***************************************************************************)
(* C25.  Cell width: in every reachable state every cell of the Input and  *)
(* the Holding register space holds an unsigned 16-bit value, 0..65535,    *)
(* whatever field values the update calls are given.                       *)
(***************************************************************************)
C25_CellWidth ==
    /\ \A address \in IrAddrs : ir[address] \in 0..65535
    /\ \A address \in HrAddrs : hr[address] \in 0..65535


\* the running tick is between two cell-writes of update_chiller_data: the
\* chiller block is neither as the last completed operation left it nor as
\* the tick will leave it, but a mixture of the two
ChillerBlockTorn ==
    /\ pending # << >>
    /\ Slice(ir, CHILLER_BASE, 10) # Slice(committed.ir, CHILLER_BASE, 10)
    /\ LET last(address) ==
               {i \in 1..Len(pending) :
                   /\ pending[i].fx = 4
                   /\ pending[i].address = address
                   /\ \A j \in (i + 1)..Len(pending) :
                         ~(pending[j].fx = 4 /\ pending[j].address = address)}
           left(address) ==
               IF last(address) = {} THEN ir[address]
               ELSE pending[CHOOSE i \in last(address) : TRUE].value
       IN  \E address \in CHILLER_BASE..(CHILLER_BASE + 9) :
              ir[address] # left(address)

(***************************************************************************)
(* C26.  As claimed: block updates are not atomic as a whole.  While the   *)
(* chiller block is between two cell-writes of one UpdateChillerData, a    *)
(* gateway read of the 10-cell chiller span can be served (and observes    *)
(* the mixture).                                                           *)
(***************************************************************************)
C26_TornReadPossible ==
    ChillerBlockTorn => ENABLED ClientRead(4, CHILLER_BASE, 10)

(***************************************************************************)
(* C26, amended.  The chiller block does pass through mixtures of the      *)
(* previous and the current update, one setValues call at a time, but no   *)
(* gateway read is served while it does: the update runs to its end        *)
(* without a suspension point.  Every reply to a read of the chiller span  *)
(* carries the block as a completed update left it.                        *)
(***************************************************************************)
C26_BlockUpdateAtomic ==
    /\ ChillerBlockTorn => ~ENABLED ClientRead(4, CHILLER_BASE, 10)
    /\ (/\ lastOp = "ClientRead"
        /\ reply.fx = 4
        /\ reply.address = CHILLER_BASE
        /\ reply.count = 10)
       => /\ ~ChillerBlockTorn
          /\ reply.values = Slice(ir, CHILLER_BASE, 10)
          /\ ir = committed.ir

\* a tick that replaces a published chiller block (setpoint cell 20, after
\* a gateway wrote 25) has made some of its cell-writes: the block is a
\* mixture, and no read of it can be served
C26_Witness ==
    /\ ChillerBlockTorn
    /\ lastOp = "SimWrite"
    /\ committed.ir[CHILLER_BASE] = Scale10(215)
    /\ ~ENABLED ClientRead(4, CHILLER_BASE, 10)


(***************************************************************************)
(* The address-map manager alone: the calls that use or change the         *)
(* registry, for every fermenter id, with no gateway.                      *)
(***************************************************************************)
NextRegistry ==
    \/ \E fermenter_id \in Ids : AddFermenter(fermenter_id)
    \/ \E fermenter_id \in Ids : RemoveFermenter(fermenter_id)
    \/ \E data \in ChillerInputs : UpdateChillerData(data)
    \/ \E fermenter_id \in Ids, data \in FermenterInputs :
          UpdateFermenterData(fermenter_id, data)

SpecRegistry == Init /\ [][NextRegistry]_vars

\* the Input cells of the block of a slot
BlockCells(fermenter_index) ==
    base_addr(fermenter_index)
       ..(base_addr(fermenter_index) + REGISTERS_PER_FERMENTER - 1)

(***************************************************************************)
(* C27.  Registry injectivity: no two registered fermenter ids share a     *)
(* slot index, so the 10-cell blocks of different fermenters are disjoint, *)
(* and no fermenter's block overlaps the chiller block 30001..30010.       *)
(***************************************************************************)
C27_RegistryInjective ==
    /\ \A x \in DOMAIN fermenters, y \in DOMAIN fermenters :
          x # y
          => /\ fermenters[x] # fermenters[y]
             /\ BlockCells(fermenters[x]) \cap BlockCells(fermenters[y]) = {}
    /\ \A x \in DOMAIN fermenters :
          BlockCells(fermenters[x]) \cap (30001..30010) = {}

\* "FV001" holds slot 1; slot 0 was freed and AddFermenter has just given
\* it to "FV003" and not the index 1 that is in use
C27_Witness ==
    /\ lastOp = "AddFermenter"
    /\ DOMAIN fermenters = {1, 3}
    /\ fermenters[1] = 1
    /\ fermenters[3] = 0
    /\ Block(ir, base_addr(0)) = initial_values
    /\ Block(ir, base_addr(1)) # Block(ir, base_addr(0))


\* the registry a call leaves has every registered fermenter but those of
\* removed where it was, at the base address it had
SlotsKept(registry, removed) ==
    \A fermenter_id \in DOMAIN fermenters \ removed :
        /\ fermenter_id \in DOMAIN registry
        /\ registry[fermenter_id] = fermenters[fermenter_id]
        /\ base_addr(registry[fermenter_id]) = base_addr(fermenters[fermenter_id])

(***************************************************************************)
(* C28.  Address stability: a registered fermenter keeps its slot index    *)
(* and its base address over every AddFermenter, UpdateFermenterData and   *)
(* UpdateChillerData call and over every RemoveFermenter of another id;    *)
(* only its own RemoveFermenter, followed by a new add, can change them.   *)
(***************************************************************************)
C28_AddressStable ==
    /\ \A fermenter_id \in Callable :
          SlotsKept(AfterAddFermenter(fermenter_id).fermenters, {})
    /\ \A fermenter_id \in Ids :
          SlotsKept(AfterRemoveFermenter(fermenter_id).fermenters, {fermenter_id})
    /\ \A data \in ChillerInputs :
          SlotsKept(AfterUpdateChillerData(data).fermenters, {})
    /\ \A fermenter_id \in Callable, data \in FermenterInputs :
          SlotsKept(AfterUpdateFermenterData(fermenter_id, data).fermenters, {})

\* "FV002" holds slot 1 and its published block, right after the fermenter
\* of slot 0 was removed
C28_Witness ==
    /\ lastOp = "RemoveFermenter"
    /\ DOMAIN fermenters = {2}
    /\ fermenters[2] = 1
    /\ get_register_map(fermenters).fermenters[2].base_address = base_addr(1)
    /\ InputCell(30031) = Scale10(1805)


(***************************************************************************)
(* C29.  Mirror and echo agree after an update: right after every          *)
(* UpdateChillerData the holding mirror 40001 equals the Input setpoint    *)
(* cell CHILLER_BASE+6 (and, in the debug server, Input cell 30002), and   *)
(* right after every UpdateFermenterData the slot's holding mirror equals  *)
(* the setpoint cell base+1 of its block.                                  *)
(***************************************************************************)
C29_MirrorEchoAgree ==
    /\ \A data \in SimChillerInputs :
          LET after == AfterUpdateChillerData(data)
          IN  /\ after.hr[40001] = after.ir[CHILLER_BASE + 6]
              /\ Debug => after.hr[40001] = after.ir[30002]
    /\ \A fermenter_id \in QueryIds, data \in SimFermenterInputs :
          CanRegister(fermenter_id)
          => LET after == AfterUpdateFermenterData(fermenter_id, data)
                 index == after.fermenters[fermenter_id]
             IN  after.hr[40001 + index] = after.ir[base_addr(index) + 1]

\* the chiller was updated while 40001 held the 18.0 of the fermenter in
\* slot 0: mirror, setpoint cell and 30002 all hold 180
C29_Witness ==
    /\ Debug
    /\ lastOp = "UpdateChillerData"
    /\ hr[40001] = 180
    /\ ir[CHILLER_BASE + 6] = 180
    /\ ir[30002] = 180


(***************************************************************************)
(* The setValues calls of add_fermenter and remove_fermenter, in order.    *)
(***************************************************************************)
add_fermenter_writes(f, fermenter_id) ==
    IF fermenter_id \in DOMAIN f
    THEN << >>
    ELSE block_writes(base_addr(next_index(used_indices(f), 0)), initial_values)

remove_fermenter_writes(f, fermenter_id) ==
    IF fermenter_id \notin DOMAIN f
    THEN << >>
    ELSE block_writes(base_addr(f[fermenter_id]),
                      [i \in 1..REGISTERS_PER_FERMENTER |-> 0])

\* every setValues call of the list addresses an Input cell of input_cells
\* or a Holding cell of holding_cells, and so no coil and no discrete input
Confined(writes, input_cells, holding_cells) ==
    \A i \in 1..Len(writes) :
        \/ writes[i].fx = 4 /\ writes[i].address \in input_cells
        \/ writes[i].fx = 3 /\ writes[i].address \in holding_cells

\* the call that leads to after leaves every other cell, and the registry
\* of the other fermenters, as they are
SameOutside(after, input_cells, holding_cells) ==
    /\ \A address \in IrAddrs \ input_cells : after.ir[address] = ir[address]
    /\ \A address \in HrAddrs \ holding_cells : after.hr[address] = hr[address]

(***************************************************************************)
(* C30.  Frame of the domain writes: UpdateChillerData changes no cell     *)
(* other than the Input cells CHILLER_BASE+0..9 and holding cell 40001;    *)
(* UpdateFermenterData for a registered id none other than the 10 Input    *)
(* cells of its slot and the slot's holding mirror; AddFermenter and       *)
(* RemoveFermenter none other than the 10 Input cells of the slot          *)
(* concerned.  None of them writes a coil or a discrete input: the cells  *)
(* a call leaves changed are those its setValues calls, all for function   *)
(* code 3 or 4, name.                                                      *)
(***************************************************************************)
C30_Frame ==
    /\ \A data \in ChillerInputs :
          /\ Confined(chiller_writes(server, hr, data),
                      CHILLER_BASE..(CHILLER_BASE + 9), {40001})
          /\ SameOutside(AfterUpdateChillerData(data),
                         CHILLER_BASE..(CHILLER_BASE + 9), {40001})
    /\ \A fermenter_id \in DOMAIN fermenters, data \in FermenterInputs :
          LET cells == BlockCells(fermenters[fermenter_id])
              mirror == {40001 + fermenters[fermenter_id]}
          IN  /\ Confined(fermenter_writes(server, fermenters, hr,
                                           fermenter_id, data), cells, mirror)
              /\ SameOutside(AfterUpdateFermenterData(fermenter_id, data),
                             cells, mirror)
    /\ \A fermenter_id \in Callable :
          LET after == AfterAddFermenter(fermenter_id)
              cells == IF fermenter_id \in DOMAIN fermenters THEN {}
                       ELSE BlockCells(after.fermenters[fermenter_id])
              writes == add_fermenter_writes(fermenters, fermenter_id)
          IN  /\ Confined(writes, cells, {})
              /\ SameOutside(after, cells, {})
              /\ after.ir = apply_writes(server, ir, 4, writes)
    /\ \A fermenter_id \in Ids :
          LET cells == IF fermenter_id \in DOMAIN fermenters
                       THEN BlockCells(fermenters[fermenter_id])
                       ELSE {}
              writes == remove_fermenter_writes(fermenters, fermenter_id)
          IN  /\ Confined(writes, cells, {})
              /\ SameOutside(AfterRemoveFermenter(fermenter_id), cells, {})
              /\ AfterRemoveFermenter(fermenter_id).ir
                    = apply_writes(server, ir, 4, writes)
    /\ TickIsTheUpdates

\* the fermenter of slot 1 has just been updated: the block of slot 0 still
\* holds the defaults of AddFermenter, the chiller block its published
\* data, and 40001 the 25 a gateway wrote
C30_Witness ==
    /\ lastOp = "UpdateFermenterData"
    /\ \E fermenter_id \in DOMAIN fermenters : fermenters[fermenter_id] = 1
    /\ Block(ir, base_addr(0)) = initial_values
    /\ InputCell(base_addr(1)) = Scale10(1805)
    /\ InputCell(CHILLER_BASE) = Scale10(215)
    /\ hr[40001] = 25
    /\ hr[40002] = Scale10(1800)


(***************************************************************************)
(* A plant that keeps growing: the driver registers "FV001", "FV002", ...  *)
(* one after the other (the fermenter "FVn" is the id n) and may remove    *)
(* the one it registered last again.  add_fermenter has no limit of its    *)
(* own; the registry of this specification stops at MaxPlant.  Of the      *)
(* stores only the cells of IrAddrs and HrAddrs are kept, as before;       *)
(* whether a cell lies inside its data block is decided by InBlock.        *)
(***************************************************************************)
\* fermenters registered at the same time in the growing plant
MaxPlant == 98

\* the id registered last, and the next one
LastId == Cardinality(DOMAIN fermenters)
NextId == Cardinality(DOMAIN fermenters) + 1

AddNextFermenter ==
    /\ NextId <= MaxPlant
    /\ StepTo(AfterAddFermenter(NextId))

RemoveLastFermenter ==
    /\ LastId >= 1
    /\ StepTo(AfterRemoveFermenter(LastId))

NextPlant ==
    \/ AddNextFermenter
    \/ RemoveLastFermenter

SpecPlant == Init /\ [][NextPlant]_vars

(***************************************************************************)
(* C31.  Allocated slots fit the store: for any number of registered       *)
(* fermenters, the 10 Input cells FERMENTER_BASE + 10 * index + 0..9 and   *)
(* the holding mirror 40001 + index of every registered fermenter lie      *)
(* inside their register space; AddFermenter hands out no slot whose       *)
(* block or mirror falls outside.                                          *)
(***************************************************************************)
C31_SlotsFit ==
    \A fermenter_id \in DOMAIN fermenters :
        /\ \A i \in 0..(REGISTERS_PER_FERMENTER - 1) :
              InBlock(server, 4,
                      FERMENTER_BASE + 10 * fermenters[fermenter_id] + i, 1)
        /\ InBlock(server, 3, 40001 + fermenters[fermenter_id], 1)

====
